---- MODULE Spec2Model ----
(***************************************************************************)
(* Model of the two demo programs of the repository:                       *)
(*   design-patterns/behavioral/template_method.py  (Template Method)      *)
(*   design-patterns/creational/factory_method.py   (Factory Method)       *)
(* The two programs share no code and no data; each has its own variables, *)
(* its own next-state relation and its own specification.                  *)
(***************************************************************************)
EXTENDS Integers, Sequences, FiniteSets, TLC

\* ------------------------------------------------------------------ bounds
\* number of execute() calls made on one instance
MaxCalls == 2
\* number of lines the operator types at the prompt
MaxInputs == 3

\* --------------------------------------------------------------- variables
\* template_method.py: the class under test, the outcome of instantiating it,
\* the instance's attributes, the position inside execute(), the calls and
\* the output of the execute() in progress, and the completed calls.
VARIABLES cls, inst, attrs, pc, ip, trace, out, before, runs

tmVars == <<cls, inst, attrs, pc, ip, trace, out, before, runs>>

\* factory_method.py: the position inside main(), the locals of
\* choose_exporter_type() and main(), and the history of what was typed,
\* printed, constructed and called.
VARIABLES fpc, t, inputs, prompts, rejections, factory, image_exporter,
          audio_exporter, constructed, fcalls, fout

fmVars == <<fpc, t, inputs, prompts, rejections, factory, image_exporter,
            audio_exporter, constructed, fcalls, fout>>

vars == <<tmVars, fmVars>>

\* ================================================================ PART I
\* template_method.py

BaseName == "DeepLearningModel"

RequiredOps == {"first_required_operation", "second_required_operation"}
Hooks == {"first_hook", "second_hook"}
Layers == {"first_layer", "second_layer", "third_layer"}
StepNames == RequiredOps \cup Hooks \cup Layers

\* Defect: first_hook called after second_required_operation.
ExecuteBodyHookAfterRequired ==
    << "first_required_operation", "first_layer", "second_required_operation",
       "first_hook", "second_layer", "second_hook", "third_layer" >>

\* Defect: the call of second_layer is missing.
ExecuteBodySkipsLayer ==
    << "first_required_operation", "first_layer", "first_hook",
       "second_required_operation", "second_hook", "third_layer" >>

\* The body of the template method: the calls of execute(), in order.
ExecuteBody ==
    << "first_required_operation", "first_layer", "first_hook",
       "second_required_operation", "second_layer", "second_hook",
       "third_layer" >>

\* A subclass of DeepLearningModel: its name and the methods its body defines.
ModelV1 ==
    [name |-> "ModelV1",
     defined |-> {"first_required_operation", "second_required_operation"}]

ModelV2 ==
    [name |-> "ModelV2",
     defined |-> {"first_required_operation", "second_required_operation",
                  "first_hook"}]

\* Any other subclass: it may define any of the methods execute() calls.
Variant(S) == [name |-> "Variant", defined |-> S]

Classes == {ModelV1, ModelV2} \cup {Variant(S) : S \in SUBSET StepNames}

\* Defect: second_required_operation lacks its @abstractmethod decorator.
AbstractMethodsFirstOnly(c) == {"first_required_operation"} \ c.defined

\* The methods still abstract in class c: those marked @abstractmethod in the
\* base class that c does not define.
AbstractMethods(c) == RequiredOps \ c.defined

\* Method resolution of self.<step>() on an instance of c: the subclass's
\* definition when it has one, the base class's otherwise.
Resolve(c, step) == IF step \in c.defined THEN c.name ELSE BaseName

Line(step, text) == [step |-> step, text |-> text]

\* Defect: the default hooks of the base class print a line.
BodyNoisyHook(owner, step) ==
    IF owner = BaseName THEN
        CASE step = "first_layer" -> << Line(step, "Passed through layer 1 ...") >>
          [] step = "second_layer" -> << Line(step, "Passed through layer 2 ...") >>
          [] step = "third_layer" -> << Line(step, "Passed through layer 3 ...") >>
          [] step \in Hooks -> << Line(step, "hook") >>
          [] OTHER -> << >>
    ELSE IF owner = "ModelV1" THEN
        CASE step = "first_required_operation" ->
                << Line(step, "ModelV1 preprocessing before layer 1 ...") >>
          [] step = "second_required_operation" ->
                << Line(step, "ModelV1 preprocessing before layer 2 ...") >>
          [] OTHER -> << >>
    ELSE IF owner = "ModelV2" THEN
        CASE step = "first_required_operation" ->
                << Line(step, "ModelV2 preprocessing before layer 1 ...") >>
          [] step = "second_required_operation" ->
                << Line(step, "ModelV2 preprocessing before layer 2 ...") >>
          [] step = "first_hook" -> << Line(step, "Hook 1 triggered !") >>
          [] OTHER -> << >>
    ELSE << Line(step, "Variant " \o step) >>

\* What the method <step> of class <owner> prints.
Body(owner, step) ==
    IF owner = BaseName THEN
        CASE step = "first_layer" -> << Line(step, "Passed through layer 1 ...") >>
          [] step = "second_layer" -> << Line(step, "Passed through layer 2 ...") >>
          [] step = "third_layer" -> << Line(step, "Passed through layer 3 ...") >>
          [] OTHER -> << >>
    ELSE IF owner = "ModelV1" THEN
        CASE step = "first_required_operation" ->
                << Line(step, "ModelV1 preprocessing before layer 1 ...") >>
          [] step = "second_required_operation" ->
                << Line(step, "ModelV1 preprocessing before layer 2 ...") >>
          [] OTHER -> << >>
    ELSE IF owner = "ModelV2" THEN
        CASE step = "first_required_operation" ->
                << Line(step, "ModelV2 preprocessing before layer 1 ...") >>
          [] step = "second_required_operation" ->
                << Line(step, "ModelV2 preprocessing before layer 2 ...") >>
          [] step = "first_hook" -> << Line(step, "Hook 1 triggered !") >>
          [] OTHER -> << >>
    ELSE << Line(step, "Variant " \o step) >>

\* Defect: first_layer records on the instance that it ran.
WritesLayerFlag(owner, step) ==
    IF owner = BaseName /\ step = "first_layer" THEN {"layer1_done"} ELSE {}

\* The instance attributes the method <step> of class <owner> assigns: no
\* method of the file assigns any.
Writes(owner, step) == {}

InitTM ==
    /\ cls \in Classes
    /\ inst = "none"
    /\ attrs = {}
    /\ pc = "idle"
    /\ ip = 1
    /\ trace = << >>
    /\ out = << >>
    /\ before = {}
    /\ runs = << >>

\* V(): ABCMeta refuses to instantiate a class that still has abstract methods.
Instantiate ==
    /\ inst = "none"
    /\ inst' = IF AbstractMethods(cls) # {} THEN "TypeError" ELSE "ok"
    /\ attrs' = {}
    /\ UNCHANGED <<cls, pc, ip, trace, out, before, runs>>
    /\ UNCHANGED fmVars

\* client(model): model.execute() is entered.
CallExecute ==
    /\ inst = "ok"
    /\ pc = "idle"
    /\ Len(runs) < MaxCalls
    /\ pc' = "execute"
    /\ ip' = 1
    /\ trace' = << >>
    /\ out' = << >>
    /\ before' = attrs
    /\ UNCHANGED <<cls, inst, attrs, runs>>
    /\ UNCHANGED fmVars

\* The next statement of execute(): self.<step>().
Step ==
    /\ pc = "execute"
    /\ ip <= Len(ExecuteBody)
    /\ LET step == ExecuteBody[ip]
           owner == Resolve(cls, step)
       IN /\ trace' = Append(trace, [step |-> step, owner |-> owner])
          /\ out' = out \o Body(owner, step)
          /\ attrs' = attrs \cup Writes(owner, step)
    /\ ip' = ip + 1
    /\ UNCHANGED <<cls, inst, pc, before, runs>>
    /\ UNCHANGED fmVars

\* execute() returns.
Return ==
    /\ pc = "execute"
    /\ ip > Len(ExecuteBody)
    /\ runs' = Append(runs, [steps |-> trace, out |-> out,
                             before |-> before, after |-> attrs])
    /\ pc' = "idle"
    /\ UNCHANGED <<cls, inst, attrs, ip, trace, out, before>>
    /\ UNCHANGED fmVars

\* ================================================================ PART II
\* factory_method.py

None == "None"

\* The lines the operator may type (input() strips the trailing newline only).
InputLines == {"A", "B", "a", "b", "", " A", "AB"}

PromptText == "Choose the exporter type: (A) or (B)\n"
RejectionText == "Please, enter a valid option. (A) or (B)."

\* Defect: the two entries of the dict are swapped.
factoriesSwapped == [A |-> "OptionBExporterFactory", B |-> "OptionAExporterFactory"]

\* The dict built at the top of choose_exporter_type().
factories == [A |-> "OptionAExporterFactory", B |-> "OptionBExporterFactory"]

\* str.upper() on the lines of InputLines.
Upper(line) ==
    CASE line = "a" -> "A"
      [] line = "b" -> "B"
      [] OTHER -> line

\* Defect: the line is upper-cased before the membership test.
LookupIgnoringCase(line) ==
    IF Upper(line) \in DOMAIN factories THEN factories[Upper(line)] ELSE None

\* `if t in factories.keys(): return factories[t]`: the factory the line
\* selects, None when the line is no key of the dict.
Lookup(line) == IF line \in DOMAIN factories THEN factories[line] ELSE None

\* Defect: the two factories return each other's image exporter.
GetImageDataExporterSwapped(f) ==
    CASE f = "OptionAExporterFactory" -> "NoiseReductionImageDataExporter"
      [] f = "OptionBExporterFactory" -> "GrayScaleImageDataExporter"
      [] OTHER -> None

\* <factory>.get_image_data_exporter(): the class of the product returned.
GetImageDataExporter(f) ==
    CASE f = "OptionAExporterFactory" -> "GrayScaleImageDataExporter"
      [] f = "OptionBExporterFactory" -> "NoiseReductionImageDataExporter"
      [] OTHER -> None

\* Defect: option B's factory returns option A's audio exporter.
GetAudioDataExporterAlwaysResampling(f) == "ResamplingAudioDataExporter"

\* <factory>.get_audio_data_exporter(): the class of the product returned.
GetAudioDataExporter(f) ==
    CASE f = "OptionAExporterFactory" -> "ResamplingAudioDataExporter"
      [] f = "OptionBExporterFactory" -> "FilterAudioDataExporter"
      [] OTHER -> None

\* <product>.pre_process_data(...): the line printed.
PreProcessData(product) ==
    CASE product = "GrayScaleImageDataExporter" -> "Pre-process image for gray scale."
      [] product = "NoiseReductionImageDataExporter" ->
            "Pre-process image for noise reduction."
      [] product = "ResamplingAudioDataExporter" -> "Pre-process audio for resampling."
      [] product = "FilterAudioDataExporter" -> "Pre-process audio for filtering."

\* <product>.export_data(folder): the line printed.
ExportData(product, folder) ==
    CASE product = "GrayScaleImageDataExporter" ->
            "Export image data in gray scale to " \o folder
      [] product = "NoiseReductionImageDataExporter" ->
            "Export image data with less noise to " \o folder
      [] product = "ResamplingAudioDataExporter" ->
            "Export audio data with resampling to " \o folder
      [] product = "FilterAudioDataExporter" ->
            "Export filtered audio data to " \o folder

Call(var, product, op, arg) == [var |-> var, product |-> product, op |-> op, arg |-> arg]

\* main() has called choose_exporter_type(), the dict is built and the loop
\* is about to call input().
InitFM ==
    /\ fpc = "prompt"
    /\ t = None
    /\ inputs = << >>
    /\ prompts = 0
    /\ rejections = 0
    /\ factory = None
    /\ image_exporter = None
    /\ audio_exporter = None
    /\ constructed = << >>
    /\ fcalls = << >>
    /\ fout = << >>

\* input(prompt) writes the prompt and blocks on the read.
Prompt ==
    /\ fpc = "prompt"
    /\ prompts' = prompts + 1
    /\ fout' = Append(fout, PromptText)
    /\ fpc' = "read"
    /\ UNCHANGED <<t, inputs, rejections, factory, image_exporter,
                   audio_exporter, constructed, fcalls>>
    /\ UNCHANGED tmVars

\* The operator types a line: input() returns it.
ReadLine ==
    /\ fpc = "read"
    /\ Len(inputs) < MaxInputs
    /\ \E line \in InputLines :
          /\ t' = line
          /\ inputs' = Append(inputs, line)
    /\ fpc' = "check"
    /\ UNCHANGED <<prompts, rejections, factory, image_exporter,
                   audio_exporter, constructed, fcalls, fout>>
    /\ UNCHANGED tmVars

\* The operator closes the input: input() raises EOFError, which nothing
\* catches.
EndOfInput ==
    /\ fpc = "read"
    /\ fpc' = "EOFError"
    /\ UNCHANGED <<t, inputs, prompts, rejections, factory, image_exporter,
                   audio_exporter, constructed, fcalls, fout>>
    /\ UNCHANGED tmVars

\* The membership test on the line read: return the factory, or print the
\* rejection and loop.
Check ==
    /\ fpc = "check"
    /\ IF Lookup(t) # None
       THEN /\ factory' = Lookup(t)
            /\ fpc' = "get_image"
            /\ UNCHANGED <<rejections, fout>>
       ELSE /\ rejections' = rejections + 1
            /\ fout' = Append(fout, RejectionText)
            /\ fpc' = "prompt"
            /\ UNCHANGED factory
    /\ UNCHANGED <<t, inputs, prompts, image_exporter, audio_exporter,
                   constructed, fcalls>>
    /\ UNCHANGED tmVars

\* image_exporter = factory.get_image_data_exporter()
GetImage ==
    /\ fpc = "get_image"
    /\ image_exporter' = GetImageDataExporter(factory)
    /\ constructed' = Append(constructed, [product |-> GetImageDataExporter(factory),
                                           by |-> factory])
    /\ fpc' = "get_audio"
    /\ UNCHANGED <<t, inputs, prompts, rejections, factory, audio_exporter,
                   fcalls, fout>>
    /\ UNCHANGED tmVars

\* audio_exporter = factory.get_audio_data_exporter()
GetAudio ==
    /\ fpc = "get_audio"
    /\ audio_exporter' = GetAudioDataExporter(factory)
    /\ constructed' = Append(constructed, [product |-> GetAudioDataExporter(factory),
                                           by |-> factory])
    /\ fpc' = "pre_image"
    /\ UNCHANGED <<t, inputs, prompts, rejections, factory, image_exporter,
                   fcalls, fout>>
    /\ UNCHANGED tmVars

\* image_exporter.pre_process_data(image=".jpeg")
PreImage ==
    /\ fpc = "pre_image"
    /\ fcalls' = Append(fcalls, Call("image_exporter", image_exporter,
                                     "pre_process_data", ".jpeg"))
    /\ fout' = Append(fout, PreProcessData(image_exporter))
    /\ fpc' = "pre_audio"
    /\ UNCHANGED <<t, inputs, prompts, rejections, factory, image_exporter,
                   audio_exporter, constructed>>
    /\ UNCHANGED tmVars

\* audio_exporter.pre_process_data(audio=".mp3")
PreAudio ==
    /\ fpc = "pre_audio"
    /\ fcalls' = Append(fcalls, Call("audio_exporter", audio_exporter,
                                     "pre_process_data", ".mp3"))
    /\ fout' = Append(fout, PreProcessData(audio_exporter))
    /\ fpc' = "export_image"
    /\ UNCHANGED <<t, inputs, prompts, rejections, factory, image_exporter,
                   audio_exporter, constructed>>
    /\ UNCHANGED tmVars

\* image_exporter.export_data(folder="Downloads/")
ExportImage ==
    /\ fpc = "export_image"
    /\ fcalls' = Append(fcalls, Call("image_exporter", image_exporter,
                                     "export_data", "Downloads/"))
    /\ fout' = Append(fout, ExportData(image_exporter, "Downloads/"))
    /\ fpc' = "export_audio"
    /\ UNCHANGED <<t, inputs, prompts, rejections, factory, image_exporter,
                   audio_exporter, constructed>>
    /\ UNCHANGED tmVars

\* audio_exporter.export_data(folder="Downloads/")
ExportAudio ==
    /\ fpc = "export_audio"
    /\ fcalls' = Append(fcalls, Call("audio_exporter", audio_exporter,
                                     "export_data", "Downloads/"))
    /\ fout' = Append(fout, ExportData(audio_exporter, "Downloads/"))
    /\ fpc' = "done"
    /\ UNCHANGED <<t, inputs, prompts, rejections, factory, image_exporter,
                   audio_exporter, constructed>>
    /\ UNCHANGED tmVars

\* ========================================================= specifications

Init == InitTM /\ InitFM

\* The steps of template_method.py.
NextTM ==
    \/ Instantiate
    \/ CallExecute
    \/ Step
    \/ Return

\* The steps factory_method.py takes by itself.
ProgramFM ==
    \/ Prompt
    \/ Check
    \/ GetImage
    \/ GetAudio
    \/ PreImage
    \/ PreAudio
    \/ ExportImage
    \/ ExportAudio

\* The steps of the operator at the console.
OperatorFM ==
    \/ ReadLine
    \/ EndOfInput

NextFM ==
    \/ ProgramFM
    \/ OperatorFM

Next == NextTM \/ NextFM

Spec == Init /\ [][Next]_vars

\* template_method.py alone, for every class under test.
SpecTM == Init /\ [][NextTM]_vars

\* factory_method.py alone.
InitFMOnly == Init /\ cls = ModelV1

SpecFM == InitFMOnly /\ [][NextFM]_vars

\* The program is sequential: whenever its next statement can run, it runs.
\* Nothing obliges the operator to type.
FairSpecFM == SpecFM /\ WF_vars(ProgramFM)

\* ============================================================= properties
\* template_method.py, checked under SpecTM

\* The names of the steps called by a run, in call order.
CalledSteps(steps) == [k \in 1..Len(steps) |-> steps[k].step]

\* The steps that emitted the lines of an output, in output order.
Emitters(lines) == [k \in 1..Len(lines) |-> lines[k].step]

\* The texts of the lines of an output, in output order.
Texts(lines) == [k \in 1..Len(lines) |-> lines[k].text]

NotHookLine(l) == l.step \notin {"first_hook", "second_hook"}

MissingRequired ==
    \/ "first_required_operation" \notin cls.defined
    \/ "second_required_operation" \notin cls.defined

\* C1: for every instantiable subclass, whatever it overrides, one call of
\* execute() calls exactly the seven steps first_required_operation,
\* first_layer, first_hook, second_required_operation, second_layer,
\* second_hook, third_layer, each once and in this order; while the call is
\* in progress the steps called so far are a prefix of that sequence.
C1_ExecuteOrder ==
    LET order == << "first_required_operation", "first_layer", "first_hook",
                    "second_required_operation", "second_layer", "second_hook",
                    "third_layer" >>
    IN /\ pc = "execute" =>
            /\ Len(trace) <= 7
            /\ CalledSteps(trace) = SubSeq(order, 1, Len(trace))
       /\ \A i \in 1..Len(runs) : CalledSteps(runs[i].steps) = order

\* A subclass overriding second_hook only has completed one execute().
C1_Witness ==
    /\ Len(runs) >= 1
    /\ cls.defined \cap {"first_hook", "second_hook"} = {"second_hook"}

\* C2: with the lines printed by the hooks removed, the output of a completed
\* execute() consists of one line of each of the five other steps, in the
\* order required-1, layer 1, required-2, layer 2, layer 3, for every choice
\* of hook overrides.
C2_NonHookStepsUnaffected ==
    \A i \in 1..Len(runs) :
        Emitters(SelectSeq(runs[i].out, NotHookLine)) =
            << "first_required_operation", "first_layer",
               "second_required_operation", "second_layer", "third_layer" >>

\* A subclass overriding both hooks has completed one execute(), and both
\* hooks printed.
C2_Witness ==
    /\ Len(runs) >= 1
    /\ {"first_hook", "second_hook"} \subseteq cls.defined
    /\ Len(runs[1].out) = 7

\* C3: a subclass that does not define first_required_operation or
\* second_required_operation is never instantiated: the attempt ends in
\* TypeError, execute() is never entered and no step runs or prints.
C3_MissingRequiredNotInstantiable ==
    MissingRequired =>
        /\ inst \in {"none", "TypeError"}
        /\ pc = "idle"
        /\ trace = << >>
        /\ out = << >>
        /\ runs = << >>

\* The instantiation of a subclass defining only the first required step has
\* failed.
C3_Witness ==
    /\ inst = "TypeError"
    /\ "first_required_operation" \in cls.defined
    /\ "second_required_operation" \notin cls.defined

\* C6: the calls of execute() on one instance all make the same calls and
\* print the same lines, and the instance's attributes are the same before
\* and after every call (and so between the calls).
C6_ExecuteRepeatable ==
    /\ \A i, j \in 1..Len(runs) :
          /\ runs[i].steps = runs[j].steps
          /\ runs[i].out = runs[j].out
          /\ runs[i].before = runs[j].before
    /\ \A i \in 1..Len(runs) : runs[i].before = runs[i].after
    /\ inst = "ok" /\ pc = "idle" /\ runs # << >> => attrs = runs[1].before

\* execute() has completed twice on an instance of ModelV2.
C6_Witness ==
    /\ Len(runs) >= 2
    /\ cls = ModelV2

\* C8 (as claimed): in every call of execute() the fixed steps first_layer,
\* second_layer and third_layer run the implementation of DeepLearningModel,
\* also for a subclass that defines a method of that name.
C8_FixedStepsNotOverridable ==
    \A i \in 1..Len(runs) :
        \A k \in 1..Len(runs[i].steps) :
            runs[i].steps[k].step \in {"first_layer", "second_layer", "third_layer"}
                => runs[i].steps[k].owner = "DeepLearningModel"

\* C10: a hook prints exactly when the subclass overrides that hook, whatever
\* it does with the other one.  ModelV1 overrides none and prints five lines;
\* ModelV2 overrides first_hook only and prints six, the hook's line third,
\* after the layer-1 line and before the second required step's line.
C10_HookDefaults ==
    \A i \in 1..Len(runs) :
        /\ \A h \in {"first_hook", "second_hook"} :
              (\E k \in 1..Len(runs[i].out) : runs[i].out[k].step = h)
                  <=> h \in cls.defined
        /\ cls.name = "ModelV1" =>
              Texts(runs[i].out) =
                  << "ModelV1 preprocessing before layer 1 ...",
                     "Passed through layer 1 ...",
                     "ModelV1 preprocessing before layer 2 ...",
                     "Passed through layer 2 ...",
                     "Passed through layer 3 ..." >>
        /\ cls.name = "ModelV2" =>
              Texts(runs[i].out) =
                  << "ModelV2 preprocessing before layer 1 ...",
                     "Passed through layer 1 ...",
                     "Hook 1 triggered !",
                     "ModelV2 preprocessing before layer 2 ...",
                     "Passed through layer 2 ...",
                     "Passed through layer 3 ..." >>

\* ModelV2 has completed one execute().
C10_Witness ==
    /\ Len(runs) >= 1
    /\ cls.name = "ModelV2"
    /\ Len(runs[1].out) = 6

\* factory_method.py, checked under SpecFM and FairSpecFM

\* C4: once the label "A" is accepted, main() obtains the gray-scale image
\* exporter and the resampling audio exporter and makes exactly four product
\* calls, in the order image pre_process_data, audio pre_process_data, image
\* export_data, audio export_data, each printing the line of its product.
C4_OptionAFlow ==
    LET expected ==
            << [var |-> "image_exporter", product |-> "GrayScaleImageDataExporter",
                op |-> "pre_process_data", arg |-> ".jpeg"],
               [var |-> "audio_exporter", product |-> "ResamplingAudioDataExporter",
                op |-> "pre_process_data", arg |-> ".mp3"],
               [var |-> "image_exporter", product |-> "GrayScaleImageDataExporter",
                op |-> "export_data", arg |-> "Downloads/"],
               [var |-> "audio_exporter", product |-> "ResamplingAudioDataExporter",
                op |-> "export_data", arg |-> "Downloads/"] >>
        lines ==
            << "Pre-process image for gray scale.",
               "Pre-process audio for resampling.",
               "Export image data in gray scale to Downloads/",
               "Export audio data with resampling to Downloads/" >>
    IN (factory # "None" /\ t = "A") =>
          /\ Len(fcalls) <= 4
          /\ fcalls = SubSeq(expected, 1, Len(fcalls))
          /\ fpc = "done" =>
                /\ image_exporter = "GrayScaleImageDataExporter"
                /\ audio_exporter = "ResamplingAudioDataExporter"
                /\ fcalls = expected
                /\ Len(fout) >= 4
                /\ SubSeq(fout, Len(fout) - 3, Len(fout)) = lines

\* main() has finished after the label "A", typed after one rejected line.
C4_Witness ==
    /\ fpc = "done"
    /\ t = "A"
    /\ rejections = 1

\* C5: a line other than exactly "A" or "B" is rejected: the rejection
\* message is printed and the loop goes back to the prompt, which is then
\* issued again; the factory is returned only for "A" or "B", and until then
\* no product is constructed and no product method is called.
C5_InvalidRejected ==
    /\ [](factory = "None" =>
            /\ constructed = << >>
            /\ fcalls = << >>
            /\ image_exporter = "None"
            /\ audio_exporter = "None")
    /\ [](factory # "None" => t \in {"A", "B"})
    /\ [][(fpc = "check" /\ t \notin {"A", "B"}) =>
            /\ fpc' = "prompt"
            /\ rejections' = rejections + 1
            /\ fout' = Append(fout, "Please, enter a valid option. (A) or (B).")
            /\ factory' = "None"
            /\ constructed' = << >>
            /\ fcalls' = << >>]_vars
    /\ (fpc = "check" /\ t \notin {"A", "B"}) ~>
            (/\ fpc = "read"
             /\ prompts = rejections + 1
             /\ fout[Len(fout)] = "Choose the exporter type: (A) or (B)\n")

\* The lines " A" and then "a" were rejected and the prompt is up again.
C5_Witness ==
    /\ fpc = "read"
    /\ inputs = << " A", "a" >>
    /\ rejections = 2
    /\ prompts = 3

\* C7: both products of a run come from the one factory the selector
\* returned, which never changes afterwards: the pair is gray-scale with
\* resampling after "A" and noise-reduction with filter after "B", never a
\* mixed one, whatever was rejected before.
C7_OneFamily ==
    /\ [](\A k \in 1..Len(constructed) : constructed[k].by = factory)
    /\ [](image_exporter # "None" =>
            image_exporter = (IF t = "A" THEN "GrayScaleImageDataExporter"
                                         ELSE "NoiseReductionImageDataExporter"))
    /\ [](audio_exporter # "None" =>
            audio_exporter = (IF t = "A" THEN "ResamplingAudioDataExporter"
                                         ELSE "FilterAudioDataExporter"))
    /\ [](image_exporter # "None" /\ audio_exporter # "None" =>
            <<image_exporter, audio_exporter>> \in
                { <<"GrayScaleImageDataExporter", "ResamplingAudioDataExporter">>,
                  <<"NoiseReductionImageDataExporter", "FilterAudioDataExporter">> })
    /\ [][factory # "None" => factory' = factory]_vars

\* main() has finished after the label "B", typed after two rejected lines.
C7_Witness ==
    /\ fpc = "done"
    /\ t = "B"
    /\ rejections = 2
    /\ Len(constructed) = 2

\* C9: the selector returns only on a valid label: when it has returned, the
\* lines typed are n invalid ones followed by a valid one, n rejections were
\* printed, n+1 prompts issued, and the factory is the one of that label;
\* before that every line checked was invalid and rejected, and the program
\* is still in the loop unless the input was closed.  A valid line typed is
\* followed by the selector's return.
C9_PromptLoop ==
    /\ [](factory # "None" =>
            /\ Len(inputs) >= 1
            /\ \A k \in 1..(Len(inputs) - 1) : inputs[k] \notin {"A", "B"}
            /\ inputs[Len(inputs)] \in {"A", "B"}
            /\ rejections = Len(inputs) - 1
            /\ prompts = Len(inputs)
            /\ factory = (IF inputs[Len(inputs)] = "A"
                            THEN "OptionAExporterFactory"
                            ELSE "OptionBExporterFactory"))
    /\ [](factory = "None" =>
            /\ fpc \in {"prompt", "read", "check", "EOFError"}
            /\ \A k \in 1..(Len(inputs) - 1) : inputs[k] \notin {"A", "B"}
            /\ fpc # "check" =>
                  /\ \A k \in 1..Len(inputs) : inputs[k] \notin {"A", "B"}
                  /\ rejections = Len(inputs)
            /\ fpc = "check" => rejections = Len(inputs) - 1
            /\ fpc \in {"read", "check"} => prompts = rejections + 1)
    /\ (fpc = "check" /\ t \in {"A", "B"}) ~> (factory # "None")

\* The selector has returned the factory of "B" after two rejections and
\* three prompts.
C9_Witness ==
    /\ factory = "OptionBExporterFactory"
    /\ rejections = 2
    /\ prompts = 3
    /\ Len(inputs) = 3

====
